---- MODULE Spec2Model ----
(***************************************************************************)
(* Session-scoped job orchestration of the UniX agent backend.             *)
(*                                                                         *)
(*   Spec       embedded topology: app/api/routes.py handlers, the         *)
(*              in-process session table of app/services/sessions.py and   *)
(*              the runner threads of app/services/agent_runner.py.        *)
(*   SpecShared, SpecJob, SpecJobFair, SpecQueue                           *)
(*              shared-store topology: several orchestrator instances      *)
(*              calling create_session against one Redis, and the queue    *)
(*              jobs of app/workers/agent_jobs.py.                         *)
(*   SpecLog    sessions.append_log and sessions.get_logs on one session.  *)
(*   SpecApi    the routes as whole handlers, request bodies included.     *)
(***************************************************************************)
EXTENDS Integers, Sequences, FiniteSets, TLC

\* os.getenv("MAX_CONCURRENT_AGENTS", "1")
MAX_CONCURRENT_AGENTS == 1

\* Log bounds of the embedded relay loops, scaled down: the code keeps the
\* last 200 lines of a single job and the last 500 of a batch job.
SingleLogBound == 4
BatchLogBound == 6

\* sessions.LOG_LIMIT, scaled down: append_log keeps the last 500 lines.
RedisLogBound == 4

\* Lines the worker may have written that the runner has not read yet.
MaxPipe == 1

SessionIds == {"s1", "s2"}
Callers == {"t1", "t2"}
Orchestrators == {"o1", "o2"}
Modes == {"single", "batch"}

\* exit statuses of a worker that ends by itself
ExitCodes == {0, 1}

None == "None"
NoOne == "NoOne"

VARIABLES
    pool,            \* the ids uuid4 can still hand out in this run
    agent_sessions,  \* sessions.agent_sessions: id -> session dict
    sessions_lock,   \* sessions.sessions_lock: the caller holding it, or NoOne
    pc,              \* position of each API request thread
    arg,             \* the session id / mode a request thread works on
    result,          \* what the last request of a thread returned or raised
    snap,            \* ghost: ids registered when a create call passed its check
    rpc,             \* position of each session's runner thread
    sliced,          \* runner local: the slice logs[-bound:] not yet stored
    proc,            \* the worker subprocess of each session
    pipe,            \* unread worker output lines of each session
    stopOk,          \* ghost: a stop call has returned success for the id
    redis_up,        \* the Redis server answers; a call raises when it does not
    redis_hash,      \* agent:session:<id> hashes: field -> string
    redis_logs,      \* agent:session:<id>:logs lists
    running_set,     \* the set agent:sessions:running
    agent_queue,     \* the RQ queue "agent": ids of the sessions whose job waits
    opc,             \* position of each orchestrator instance's request
    oarg,            \* the mode and id an orchestrator's create_session works on
    jpc,             \* position of each session's queue job
    req,             \* the request body a start handler was called with
    reply,           \* what the last status / logs request of a thread returned
    emitted,         \* ghost: lines the worker of a session has written so far
    threads,         \* runner threads started for a session id and not yet ended
    appended,        \* ghost: every line passed to append_log, per backing
    apc,             \* position of the append_log call in progress, per backing
    got              \* what the last get_logs call returned, per backing

embVars == <<agent_sessions, sessions_lock, pc, arg, result, snap, rpc, sliced, stopOk>>
redisVars == <<redis_up, redis_hash, redis_logs, running_set, agent_queue, opc, oarg, jpc>>
redisVarsButJpc == <<redis_up, redis_hash, redis_logs, running_set, agent_queue, opc, oarg>>
apiVars == <<req, reply, emitted, threads>>
logVars == <<appended, apc, got>>
auxVars == <<apiVars, logVars>>
vars == <<pool, proc, pipe, embVars, redisVars, auxVars>>

\* the two backings of the session store
Backings == {"memory", "redis"}

NoReq == [mode |-> None, unix_email |-> None, unix_password |-> None, lesson_ids |-> <<>>]
NoReply == [kind |-> None]

NoProc == [state |-> "none", code |-> 0, termSent |-> FALSE]

LogBound(mode) == IF mode = "single" THEN SingleLogBound ELSE BatchLogBound

LastN_KeepsOldest(seq, n) == IF Len(seq) <= n THEN seq ELSE SubSeq(seq, 1, n)

\* seq[-n:]
LastN(seq, n) == IF Len(seq) <= n THEN seq ELSE SubSeq(seq, Len(seq) - n + 1, Len(seq))

Known(s) == s \in DOMAIN agent_sessions

\* sessions._running_count, in-process branch
RunningIds == {s \in DOMAIN agent_sessions : agent_sessions[s].running}
_running_count == Cardinality(RunningIds)

LockAvailable_NoLock == TRUE

\* `with sessions_lock:` can be entered
LockAvailable == sessions_lock = NoOne

Alive(s) == proc[s].state = "alive"
Exited(s) == proc[s].state = "exited"

InitTable(ids) ==
    /\ pool = ids
    /\ agent_sessions = <<>>
    /\ sessions_lock = NoOne
    /\ pc = [c \in Callers |-> "idle"]
    /\ arg = [c \in Callers |-> None]
    /\ result = [c \in Callers |-> None]
    /\ snap = [c \in Callers |-> {}]
    /\ rpc = [s \in SessionIds |-> "none"]
    /\ sliced = [s \in SessionIds |-> <<>>]
    /\ proc = [s \in SessionIds |-> NoProc]
    /\ pipe = [s \in SessionIds |-> 0]
    /\ stopOk = [s \in SessionIds |-> FALSE]
    /\ redis_up = TRUE
    /\ redis_hash = [s \in SessionIds |-> <<>>]
    /\ redis_logs = [s \in SessionIds |-> <<>>]
    /\ running_set = {}
    /\ agent_queue = {}
    /\ opc = [o \in Orchestrators |-> "idle"]
    /\ oarg = [o \in Orchestrators |-> [mode |-> None, id |-> None]]
    /\ jpc = [s \in SessionIds |-> "none"]
    /\ req = [c \in Callers |-> NoReq]
    /\ reply = [c \in Callers |-> NoReply]
    /\ emitted = [s \in SessionIds |-> 0]
    /\ threads = [s \in SessionIds |-> 0]
    /\ appended = [b \in Backings |-> <<>>]
    /\ apc = [b \in Backings |-> "idle"]
    /\ got = [b \in Backings |-> <<>>]

-----------------------------------------------------------------------------
(* create_session, in-process store, called by start_agent/start_batch_agent *)

NewSession_NotRunning(mode) ==
    [running |-> FALSE, current_lesson |-> None, mode |-> mode, last_run |-> None,
     stop_requested |-> FALSE, logs |-> <<>>, process |-> None]

\* the session dict create_session stores
NewSession(mode) ==
    [running |-> TRUE, current_lesson |-> None, mode |-> mode, last_run |-> None,
     stop_requested |-> FALSE, logs |-> <<>>, process |-> None]

\* lock taken, capacity check failed: HTTPException(503), lock released
CreateSessionReject(c, mode) ==
    /\ pc[c] = "idle"
    /\ LockAvailable
    /\ _running_count >= MAX_CONCURRENT_AGENTS
    /\ pc' = [pc EXCEPT ![c] = "return"]
    /\ result' = [result EXCEPT ![c] = "503"]
    /\ arg' = [arg EXCEPT ![c] = mode]
    /\ UNCHANGED <<redisVars, auxVars, pool, agent_sessions, sessions_lock, snap, rpc, sliced, proc, pipe, stopOk>>

\* lock taken, capacity check passed
CreateSessionCheck(c, mode) ==
    /\ pc[c] = "idle"
    /\ LockAvailable
    /\ _running_count < MAX_CONCURRENT_AGENTS
    /\ pool \ DOMAIN agent_sessions # {}
    /\ sessions_lock' = c
    /\ pc' = [pc EXCEPT ![c] = "create_register"]
    /\ arg' = [arg EXCEPT ![c] = mode]
    /\ snap' = [snap EXCEPT ![c] = DOMAIN agent_sessions]
    /\ UNCHANGED <<redisVars, auxVars, pool, agent_sessions, result, rpc, sliced, proc, pipe, stopOk>>

\* the record is stored under a new uuid, the lock released, and the route
\* starts the runner thread of the session
CreateSessionRegister(c) ==
    /\ pc[c] = "create_register"
    /\ \E s \in pool \ DOMAIN agent_sessions :
        /\ agent_sessions' = agent_sessions @@ (s :> NewSession(arg[c]))
        /\ rpc' = [rpc EXCEPT ![s] = "start"]
        /\ threads' = [threads EXCEPT ![s] = @ + 1]
        /\ result' = [result EXCEPT ![c] = s]
    /\ sessions_lock' = NoOne
    /\ pc' = [pc EXCEPT ![c] = "return"]
    /\ snap' = [snap EXCEPT ![c] = {}]
    /\ UNCHANGED <<redisVars, req, reply, emitted, logVars, pool, arg, sliced, proc, pipe,
                   stopOk>>

\* the handler's response has gone out; the thread takes the next request
Respond(c) ==
    /\ pc[c] = "return"
    /\ pc' = [pc EXCEPT ![c] = "idle"]
    /\ arg' = [arg EXCEPT ![c] = None]
    /\ result' = [result EXCEPT ![c] = None]
    /\ req' = [req EXCEPT ![c] = NoReq]
    /\ reply' = [reply EXCEPT ![c] = NoReply]
    /\ UNCHANGED <<redisVars, emitted, threads, logVars, pool, agent_sessions, sessions_lock,
                   snap, rpc, sliced, proc, pipe, stopOk>>

-----------------------------------------------------------------------------
(* run_single_agent / run_batch_agent: the runner thread of one session.   *)
(* The empty-ids return of run_batch_agent is not taken: start_batch_agent *)
(* rejects such a request before it creates the session.                   *)

\* the announcement lines appended before the subprocess is spawned
StartLines(mode) == IF mode = "single" THEN <<"start">> ELSE <<"start", "ids", "skip">>

ExitLine_AlwaysStopped(code) == "stopped"

ExitLine_ZeroOnly(code) == IF code = 0 THEN "finished" ELSE "stopped"

\* exit_code in (-9, -15) -> "stopped by user", else finished / complete
ExitLine(code) == IF code \in {-9, -15} THEN "stopped" ELSE "finished"

Finalize_LeavesRunning(sess) == [sess EXCEPT !.process = None, !.last_run = "t"]

\* the finally block
Finalize(sess) == [sess EXCEPT !.running = FALSE, !.process = None, !.last_run = "t"]

\* process.poll() is not None -> break
AfterPoll(s) == IF Exited(s) THEN "wait" ELSE "relay"

\* session found; running, current_lesson, mode, logs, process are reset
RunnerStart(s) ==
    /\ rpc[s] = "start"
    /\ Known(s)
    /\ agent_sessions' = [agent_sessions EXCEPT
            ![s].running = TRUE,
            ![s].current_lesson = "lesson",
            ![s].logs = <<>>,
            ![s].process = None]
    /\ rpc' = [rpc EXCEPT ![s] = "spawn"]
    /\ UNCHANGED <<redisVars, auxVars, pool, sessions_lock, pc, arg, result, snap, sliced, proc, pipe, stopOk>>

\* start lines appended, subprocess.Popen succeeds, session["process"] set
RunnerSpawn(s) ==
    /\ rpc[s] = "spawn"
    /\ agent_sessions' = [agent_sessions EXCEPT
            ![s].logs = @ \o StartLines(agent_sessions[s].mode),
            ![s].process = "p"]
    /\ proc' = [proc EXCEPT ![s] = [state |-> "alive", code |-> 0, termSent |-> FALSE]]
    /\ rpc' = [rpc EXCEPT ![s] = "relay"]
    /\ UNCHANGED <<redisVars, auxVars, pool, sessions_lock, pc, arg, result, snap, sliced, pipe, stopOk>>

\* start lines appended, subprocess.Popen raises
RunnerSpawnFail(s) ==
    /\ rpc[s] = "spawn"
    /\ agent_sessions' = [agent_sessions EXCEPT
            ![s].logs = @ \o StartLines(agent_sessions[s].mode)]
    /\ rpc' = [rpc EXCEPT ![s] = "except"]
    /\ UNCHANGED <<redisVars, auxVars, pool, sessions_lock, pc, arg, result, snap, sliced, proc, pipe, stopOk>>

\* one iteration of the relay loop: a line is read and appended; when the
\* log is over its bound the slice is computed, to be stored by the next step
RunnerRelayLine(s) ==
    /\ rpc[s] = "relay"
    /\ pipe[s] > 0
    /\ pipe' = [pipe EXCEPT ![s] = @ - 1]
    /\ LET logs == Append(agent_sessions[s].logs, "out")
           bound == LogBound(agent_sessions[s].mode)
       IN /\ agent_sessions' = [agent_sessions EXCEPT ![s].logs = logs]
          /\ IF Len(logs) > bound
             THEN /\ sliced' = [sliced EXCEPT ![s] = LastN(logs, bound)]
                  /\ rpc' = [rpc EXCEPT ![s] = "trim"]
             ELSE /\ rpc' = [rpc EXCEPT ![s] = AfterPoll(s)]
                  /\ UNCHANGED sliced
    /\ UNCHANGED <<redisVars, auxVars, pool, sessions_lock, pc, arg, result, snap, proc, stopOk>>

\* session["logs"] = <the slice>, then process.poll()
RunnerTrimStore(s) ==
    /\ rpc[s] = "trim"
    /\ agent_sessions' = [agent_sessions EXCEPT ![s].logs = sliced[s]]
    /\ sliced' = [sliced EXCEPT ![s] = <<>>]
    /\ rpc' = [rpc EXCEPT ![s] = AfterPoll(s)]
    /\ UNCHANGED <<redisVars, auxVars, pool, sessions_lock, pc, arg, result, snap, proc, pipe, stopOk>>

\* readline returns "" once the worker has exited and its output is drained
RunnerEOF(s) ==
    /\ rpc[s] = "relay"
    /\ pipe[s] = 0
    /\ Exited(s)
    /\ rpc' = [rpc EXCEPT ![s] = "wait"]
    /\ UNCHANGED <<redisVars, auxVars, pool, agent_sessions, sessions_lock, pc, arg, result, snap, sliced,
                   proc, pipe, stopOk>>

\* the relay raises (readline cannot decode the worker's output)
RunnerRelayRaise(s) ==
    /\ rpc[s] = "relay"
    /\ pipe[s] > 0
    /\ pipe' = [pipe EXCEPT ![s] = @ - 1]
    /\ rpc' = [rpc EXCEPT ![s] = "except"]
    /\ UNCHANGED <<redisVars, auxVars, pool, agent_sessions, sessions_lock, pc, arg, result, snap, sliced,
                   proc, stopOk>>

\* process.wait(), then the line chosen by the exit code; the batch runner
\* also clears session["process"] here
RunnerClassify(s) ==
    /\ rpc[s] = "wait"
    /\ Exited(s)
    /\ agent_sessions' = [agent_sessions EXCEPT
            ![s].logs = Append(@, ExitLine(proc[s].code)),
            ![s].process = IF agent_sessions[s].mode = "batch" THEN None ELSE @]
    /\ rpc' = [rpc EXCEPT ![s] = "finally"]
    /\ UNCHANGED <<redisVars, auxVars, pool, sessions_lock, pc, arg, result, snap, sliced, proc, pipe, stopOk>>

\* except Exception: the error line
RunnerExcept(s) ==
    /\ rpc[s] = "except"
    /\ agent_sessions' = [agent_sessions EXCEPT ![s].logs = Append(@, "error")]
    /\ rpc' = [rpc EXCEPT ![s] = "finally"]
    /\ UNCHANGED <<redisVars, auxVars, pool, sessions_lock, pc, arg, result, snap, sliced, proc, pipe, stopOk>>

\* finally: running, process, last_run
RunnerFinally(s) ==
    /\ rpc[s] = "finally"
    /\ agent_sessions' = [agent_sessions EXCEPT ![s] = Finalize(@)]
    /\ rpc' = [rpc EXCEPT ![s] = "done"]
    /\ threads' = [threads EXCEPT ![s] = @ - 1]
    /\ UNCHANGED <<redisVars, req, reply, emitted, logVars, pool, sessions_lock, pc, arg, result,
                   snap, sliced, proc, pipe, stopOk>>

-----------------------------------------------------------------------------
(* the worker subprocess (unix_agent.py), seen from outside *)

\* the worker writes a line to its standard output
WorkerEmit(s) ==
    /\ Alive(s)
    /\ pipe[s] < MaxPipe
    /\ pipe' = [pipe EXCEPT ![s] = @ + 1]
    /\ UNCHANGED <<redisVars, auxVars, pool, agent_sessions, sessions_lock, pc, arg, result, snap, rpc,
                   sliced, proc, stopOk>>

\* the worker ends by itself
WorkerExit(s, code) ==
    /\ Alive(s)
    /\ proc' = [proc EXCEPT ![s] = [state |-> "exited", code |-> code, termSent |-> FALSE]]
    /\ UNCHANGED <<redisVars, auxVars, pool, agent_sessions, sessions_lock, pc, arg, result, snap, rpc,
                   sliced, pipe, stopOk>>

\* the worker dies of a SIGTERM it was sent; a worker that ignores the
\* signal never takes this step
WorkerTerminated(s) ==
    /\ Alive(s)
    /\ proc[s].termSent
    /\ proc' = [proc EXCEPT ![s] = [state |-> "exited", code |-> -15, termSent |-> FALSE]]
    /\ UNCHANGED <<redisVars, auxVars, pool, agent_sessions, sessions_lock, pc, arg, result, snap, rpc,
                   sliced, pipe, stopOk>>

-----------------------------------------------------------------------------
(* POST /api/agent/stop: stop_agent and stop_agent_by_session *)

StillAlive_NoEscalation(s) == FALSE

\* process.poll() is None after the grace period: the worker is still there
StillAlive(s) == Alive(s)

\* stop_agent: `if not session_id` -> HTTPException(400)
StopEmptyId(c) ==
    /\ pc[c] = "idle"
    /\ pc' = [pc EXCEPT ![c] = "return"]
    /\ result' = [result EXCEPT ![c] = "400"]
    /\ arg' = [arg EXCEPT ![c] = ""]
    /\ UNCHANGED <<redisVars, auxVars, pool, agent_sessions, sessions_lock, snap, rpc, sliced, proc, pipe, stopOk>>

UnknownIdResult_Lenient == "ok"

\* what stop_agent_by_session raises for an id the table does not hold
UnknownIdResult == "404"

\* lock taken, `if not session` -> HTTPException(404), lock released
StopNotFound(c, sid) ==
    /\ pc[c] = "idle"
    /\ LockAvailable
    /\ ~Known(sid)
    /\ pc' = [pc EXCEPT ![c] = "return"]
    /\ result' = [result EXCEPT ![c] = UnknownIdResult]
    /\ arg' = [arg EXCEPT ![c] = sid]
    /\ UNCHANGED <<redisVars, auxVars, pool, agent_sessions, sessions_lock, snap, rpc, sliced, proc, pipe, stopOk>>

\* lock taken, `if not session.get("running")` -> "Agent stopped", lock released
StopNotRunning(c, sid) ==
    /\ pc[c] = "idle"
    /\ LockAvailable
    /\ Known(sid)
    /\ ~agent_sessions[sid].running
    /\ pc' = [pc EXCEPT ![c] = "return"]
    /\ result' = [result EXCEPT ![c] = "ok"]
    /\ arg' = [arg EXCEPT ![c] = sid]
    /\ stopOk' = [stopOk EXCEPT ![sid] = TRUE]
    /\ UNCHANGED <<redisVars, auxVars, pool, agent_sessions, sessions_lock, snap, rpc, sliced, proc, pipe>>

Stopped_EverySession(table, sid) ==
    [x \in DOMAIN table |-> [table[x] EXCEPT !.running = FALSE, !.process = None]]

\* session["running"] = False; session["process"] = None
Stopped(table, sid) == [table EXCEPT ![sid].running = FALSE, ![sid].process = None]

\* lock taken, running, no process handle: running and process are cleared
StopNoProcess(c, sid) ==
    /\ pc[c] = "idle"
    /\ LockAvailable
    /\ Known(sid)
    /\ agent_sessions[sid].running
    /\ agent_sessions[sid].process = None
    /\ agent_sessions' = Stopped(agent_sessions, sid)
    /\ pc' = [pc EXCEPT ![c] = "return"]
    /\ result' = [result EXCEPT ![c] = "ok"]
    /\ arg' = [arg EXCEPT ![c] = sid]
    /\ stopOk' = [stopOk EXCEPT ![sid] = TRUE]
    /\ UNCHANGED <<redisVars, auxVars, pool, sessions_lock, snap, rpc, sliced, proc, pipe>>

\* lock taken, running, process handle present: process.terminate(), which
\* signals the worker unless it has already exited
StopTerminate(c, sid) ==
    /\ pc[c] = "idle"
    /\ LockAvailable
    /\ Known(sid)
    /\ agent_sessions[sid].running
    /\ agent_sessions[sid].process # None
    /\ sessions_lock' = c
    /\ proc' = [proc EXCEPT ![sid].termSent = @ \/ Alive(sid)]
    /\ pc' = [pc EXCEPT ![c] = "stop_log"]
    /\ arg' = [arg EXCEPT ![c] = sid]
    /\ UNCHANGED <<redisVars, auxVars, pool, agent_sessions, result, snap, rpc, sliced, pipe, stopOk>>

\* the "Stopping agent..." line, then time.sleep(2) begins
StopLog(c) ==
    /\ pc[c] = "stop_log"
    /\ agent_sessions' = [agent_sessions EXCEPT ![arg[c]].logs = Append(@, "stopping")]
    /\ pc' = [pc EXCEPT ![c] = "stop_sleep"]
    /\ UNCHANGED <<redisVars, auxVars, pool, sessions_lock, arg, result, snap, rpc, sliced, proc, pipe, stopOk>>

\* after the sleep: process.kill() and the "Force killed agent" line when
\* the worker has not exited
StopEscalate(c) ==
    /\ pc[c] = "stop_sleep"
    /\ IF StillAlive(arg[c])
       THEN /\ proc' = [proc EXCEPT ![arg[c]] = [state |-> "exited", code |-> -9, termSent |-> FALSE]]
            /\ agent_sessions' = [agent_sessions EXCEPT
                    ![arg[c]].logs = Append(@, "forcekill")]
       ELSE UNCHANGED <<proc, agent_sessions>>
    /\ pc' = [pc EXCEPT ![c] = "stop_finish"]
    /\ UNCHANGED <<redisVars, auxVars, pool, sessions_lock, arg, result, snap, rpc, sliced, pipe, stopOk>>

\* running and process cleared, lock released, "Agent stopped" returned
StopFinish(c) ==
    /\ pc[c] = "stop_finish"
    /\ agent_sessions' = Stopped(agent_sessions, arg[c])
    /\ sessions_lock' = NoOne
    /\ pc' = [pc EXCEPT ![c] = "return"]
    /\ result' = [result EXCEPT ![c] = "ok"]
    /\ stopOk' = [stopOk EXCEPT ![arg[c]] = TRUE]
    /\ UNCHANGED <<redisVars, auxVars, pool, arg, snap, rpc, sliced, proc, pipe>>

-----------------------------------------------------------------------------
\* requests, runner threads and worker exits
ControlSteps ==
    \/ \E c \in Callers, m \in Modes : CreateSessionReject(c, m)
    \/ \E c \in Callers, m \in Modes : CreateSessionCheck(c, m)
    \/ \E c \in Callers : CreateSessionRegister(c)
    \/ \E c \in Callers : Respond(c)
    \/ \E s \in SessionIds : RunnerStart(s)
    \/ \E s \in SessionIds : RunnerSpawn(s)
    \/ \E s \in SessionIds : RunnerSpawnFail(s)
    \/ \E s \in SessionIds : RunnerEOF(s)
    \/ \E s \in SessionIds : RunnerClassify(s)
    \/ \E s \in SessionIds : RunnerExcept(s)
    \/ \E s \in SessionIds : RunnerFinally(s)
    \/ \E s \in SessionIds, code \in ExitCodes : WorkerExit(s, code)
    \/ \E s \in SessionIds : WorkerTerminated(s)
    \/ \E c \in Callers : StopEmptyId(c)
    \/ \E c \in Callers, sid \in SessionIds : StopNotFound(c, sid)
    \/ \E c \in Callers, sid \in SessionIds : StopNotRunning(c, sid)
    \/ \E c \in Callers, sid \in SessionIds : StopNoProcess(c, sid)
    \/ \E c \in Callers, sid \in SessionIds : StopTerminate(c, sid)
    \/ \E c \in Callers : StopLog(c)
    \/ \E c \in Callers : StopEscalate(c)
    \/ \E c \in Callers : StopFinish(c)

\* the worker's output and its relay into the log
OutputSteps ==
    \/ \E s \in SessionIds : WorkerEmit(s)
    \/ \E s \in SessionIds : RunnerRelayLine(s)
    \/ \E s \in SessionIds : RunnerTrimStore(s)
    \/ \E s \in SessionIds : RunnerRelayRaise(s)

\* One session, its requests, runner and worker in full; the second id of
\* SessionIds is never handed out and stands for an unknown id.
Init == InitTable({"s1"})
Next == ControlSteps \/ OutputSteps
Spec == Init /\ [][Next]_vars

\* Admission: every id can be handed out, so sessions follow one another
\* and overlap; the workers are silent, their output plays no part in it.
InitAdmission == InitTable(SessionIds)
NextAdmission == ControlSteps
SpecAdmission == InitAdmission /\ [][NextAdmission]_vars

-----------------------------------------------------------------------------
(* The shared store: sessions.py with REDIS_URL set *)

Get(h, f, default) == IF f \in DOMAIN h THEN h[f] ELSE default

\* HSET key mapping: the named fields are written, the others kept; a key
\* that did not exist comes to exist
Hset(h, mapping) ==
    [f \in DOMAIN h \cup DOMAIN mapping |-> IF f \in DOMAIN mapping THEN mapping[f] ELSE h[f]]

\* str.lower() on the values the store holds
Lower(v) == CASE v = "True" -> "true" [] v = "False" -> "false" [] OTHER -> v

Nullable(v) == IF v \in {"", "None"} THEN None ELSE v

\* sessions._normalize_session
_normalize_session(h) ==
    IF DOMAIN h = {} THEN <<>>
    ELSE [f \in DOMAIN h \cup {"running", "stop_requested"} |->
            CASE f = "running" -> Lower(Get(h, "running", "false")) = "true"
              [] f = "stop_requested" -> Lower(Get(h, "stop_requested", "false")) = "true"
              [] f \in {"current_lesson", "last_run", "job_id", "process_pid"} -> Nullable(h[f])
              [] OTHER -> h[f]]

\* sessions.get_session, Redis branch
get_session(s) == _normalize_session(redis_hash[s])

\* sessions.is_stop_requested
is_stop_requested(s) == Get(get_session(s), "stop_requested", FALSE)

\* sessions._running_count, Redis branch: SCARD agent:sessions:running
Scard == Cardinality(running_set)

PushTrim_DropsLine(logs, line) == logs

\* RPUSH then LTRIM key -LOG_LIMIT -1
PushTrim(logs, line) == LastN(Append(logs, line), RedisLogBound)

\* the mapping create_session writes: str() of each value
CreateMapping(mode) ==
    [running |-> "True", current_lesson |-> "None", mode |-> mode, last_run |-> "None",
     job_id |-> "", stop_requested |-> "False"]

\* the fields mark_session_finished passes to update_session
FinishedMapping == [running |-> "False", stop_requested |-> "False", last_run |-> "t"]

RedisDown ==
    /\ redis_up
    /\ redis_up' = FALSE
    /\ UNCHANGED <<embVars, auxVars, pool, proc, pipe, redis_hash, redis_logs, running_set,
                   agent_queue, opc, oarg, jpc>>

RedisRestored ==
    /\ ~redis_up
    /\ redis_up' = TRUE
    /\ UNCHANGED <<embVars, auxVars, pool, proc, pipe, redis_hash, redis_logs, running_set,
                   agent_queue, opc, oarg, jpc>>

-----------------------------------------------------------------------------
(* create_session, Redis branch, in one orchestrator instance. Each        *)
(* instance has its own sessions_lock; with one request at a time in an    *)
(* instance that lock is never contended.                                  *)

NoArg == [mode |-> None, id |-> None]

\* the ids create_session calls in flight are about to use
Reserved == {oarg[o].id : o \in Orchestrators} \ {None}

\* capacity check failed: HTTPException(503)
OCreateReject(o) ==
    /\ opc[o] = "idle"
    /\ redis_up
    /\ Scard >= MAX_CONCURRENT_AGENTS
    /\ opc' = [opc EXCEPT ![o] = "refused"]
    /\ UNCHANGED <<embVars, auxVars, pool, proc, pipe, redis_up, redis_hash, redis_logs,
                   running_set, agent_queue, oarg, jpc>>

\* capacity check passed; s is the uuid the call is going to draw
OCreateCheck(o, mode, s) ==
    /\ opc[o] = "idle"
    /\ redis_up
    /\ Scard < MAX_CONCURRENT_AGENTS
    /\ s \in pool \ Reserved
    /\ DOMAIN redis_hash[s] = {}
    /\ opc' = [opc EXCEPT ![o] = "hset"]
    /\ oarg' = [oarg EXCEPT ![o] = [mode |-> mode, id |-> s]]
    /\ UNCHANGED <<embVars, auxVars, pool, proc, pipe, redis_up, redis_hash, redis_logs,
                   running_set, agent_queue, jpc>>

\* HSET of the session record, DEL of its log list
OCreateHset(o) ==
    /\ opc[o] = "hset"
    /\ redis_up
    /\ redis_hash' = [redis_hash EXCEPT ![oarg[o].id] = Hset(@, CreateMapping(oarg[o].mode))]
    /\ redis_logs' = [redis_logs EXCEPT ![oarg[o].id] = <<>>]
    /\ opc' = [opc EXCEPT ![o] = "sadd"]
    /\ UNCHANGED <<embVars, auxVars, pool, proc, pipe, redis_up, running_set, agent_queue,
                   oarg, jpc>>

\* SADD agent:sessions:running, lock released, id returned
OCreateSadd(o) ==
    /\ opc[o] = "sadd"
    /\ redis_up
    /\ running_set' = running_set \cup {oarg[o].id}
    /\ opc' = [opc EXCEPT ![o] = "enqueue"]
    /\ UNCHANGED <<embVars, auxVars, pool, proc, pipe, redis_up, redis_hash, redis_logs,
                   agent_queue, oarg, jpc>>

\* a Redis call of create_session raises: the request ends there
OCreateRaise(o) ==
    /\ opc[o] \in {"hset", "sadd"}
    /\ ~redis_up
    /\ opc' = [opc EXCEPT ![o] = "refused"]
    /\ oarg' = [oarg EXCEPT ![o] = NoArg]
    /\ UNCHANGED <<embVars, auxVars, pool, proc, pipe, redis_up, redis_hash, redis_logs,
                   running_set, agent_queue, jpc>>

\* the dispatcher puts the session's job on the queue
Enqueue(o) ==
    /\ opc[o] = "enqueue"
    /\ redis_up
    /\ agent_queue' = agent_queue \cup {oarg[o].id}
    /\ opc' = [opc EXCEPT ![o] = "idle"]
    /\ oarg' = [oarg EXCEPT ![o] = NoArg]
    /\ UNCHANGED <<embVars, auxVars, pool, proc, pipe, redis_up, redis_hash, redis_logs,
                   running_set, jpc>>

\* the error response has gone out
OReturn(o) ==
    /\ opc[o] = "refused"
    /\ opc' = [opc EXCEPT ![o] = "idle"]
    /\ UNCHANGED <<embVars, auxVars, pool, proc, pipe, redis_up, redis_hash, redis_logs,
                   running_set, agent_queue, oarg, jpc>>

\* request_stop: update_session(stop_requested=True), for a started job
RequestStop(s) ==
    /\ redis_up
    /\ jpc[s] \notin {"none", "done", "raised"}
    /\ Get(redis_hash[s], "stop_requested", "False") # "True"
    /\ redis_hash' = [redis_hash EXCEPT ![s] = Hset(@, [stop_requested |-> "True"])]
    /\ UNCHANGED <<embVars, auxVars, pool, proc, pipe, redis_up, redis_logs, running_set,
                   agent_queue, opc, oarg, jpc>>
-----------------------------------------------------------------------------
(* run_single_agent_job / run_batch_agent_job: the queue job of a session, *)
(* run by an RQ worker. A store call raises when Redis does not answer.    *)

\* an RQ worker takes the job from the queue
JobDequeue(s) ==
    /\ redis_up
    /\ s \in agent_queue
    /\ jpc[s] = "none"
    /\ agent_queue' = agent_queue \ {s}
    /\ jpc' = [jpc EXCEPT ![s] = "clear"]
    /\ UNCHANGED <<embVars, auxVars, pool, proc, pipe, redis_up, redis_hash, redis_logs,
                   running_set, opc, oarg>>

\* clear_logs(session_id), before the try
JobClearLogs(s) ==
    /\ jpc[s] = "clear"
    /\ IF redis_up
       THEN /\ redis_logs' = [redis_logs EXCEPT ![s] = <<>>]
            /\ jpc' = [jpc EXCEPT ![s] = "update"]
       ELSE /\ jpc' = [jpc EXCEPT ![s] = "raised"]
            /\ UNCHANGED redis_logs
    /\ UNCHANGED <<embVars, auxVars, pool, proc, pipe, redis_up, redis_hash, running_set,
                   agent_queue, opc, oarg>>

\* update_session(running=True, mode=..., current_lesson=...), before the try
JobMarkRunning(s) ==
    /\ jpc[s] = "update"
    /\ IF redis_up
       THEN /\ redis_hash' = [redis_hash EXCEPT ![s] =
                    Hset(@, [running |-> "True", current_lesson |-> "lesson"])]
            /\ jpc' = [jpc EXCEPT ![s] = "announce"]
       ELSE /\ jpc' = [jpc EXCEPT ![s] = "raised"]
            /\ UNCHANGED redis_hash
    /\ UNCHANGED <<embVars, auxVars, pool, proc, pipe, redis_up, redis_logs, running_set,
                   agent_queue, opc, oarg>>

\* the announcement lines, before the try
JobAnnounce(s) ==
    /\ jpc[s] = "announce"
    /\ IF redis_up
       THEN /\ redis_logs' = [redis_logs EXCEPT ![s] =
                    LastN(@ \o StartLines(Get(redis_hash[s], "mode", "single")), RedisLogBound)]
            /\ jpc' = [jpc EXCEPT ![s] = "spawn"]
       ELSE /\ jpc' = [jpc EXCEPT ![s] = "raised"]
            /\ UNCHANGED redis_logs
    /\ UNCHANGED <<embVars, auxVars, pool, proc, pipe, redis_up, redis_hash, running_set,
                   agent_queue, opc, oarg>>

\* subprocess.Popen succeeds
JobSpawn(s) ==
    /\ jpc[s] = "spawn"
    /\ proc' = [proc EXCEPT ![s] = [state |-> "alive", code |-> 0, termSent |-> FALSE]]
    /\ jpc' = [jpc EXCEPT ![s] = "pid"]
    /\ UNCHANGED <<embVars, auxVars, pool, pipe, redisVarsButJpc>>

\* subprocess.Popen raises
JobSpawnFail(s) ==
    /\ jpc[s] = "spawn"
    /\ jpc' = [jpc EXCEPT ![s] = "except"]
    /\ UNCHANGED <<embVars, auxVars, pool, proc, pipe, redisVarsButJpc>>

\* update_session(process_pid=process.pid)
JobStorePid(s) ==
    /\ jpc[s] = "pid"
    /\ IF redis_up
       THEN /\ redis_hash' = [redis_hash EXCEPT ![s] = Hset(@, [process_pid |-> "p"])]
            /\ jpc' = [jpc EXCEPT ![s] = "relay"]
       ELSE /\ jpc' = [jpc EXCEPT ![s] = "except"]
            /\ UNCHANGED redis_hash
    /\ UNCHANGED <<embVars, auxVars, pool, proc, pipe, redis_up, redis_logs, running_set,
                   agent_queue, opc, oarg>>

\* one iteration of the relay loop: a line has been read; stop_requested is
\* looked up; if set, the 'Stopping' line, terminate and break, else the
\* line is appended and the process polled
JobRelayLine(s) ==
    /\ jpc[s] = "relay"
    /\ pipe[s] > 0
    /\ pipe' = [pipe EXCEPT ![s] = @ - 1]
    /\ IF ~redis_up
       THEN /\ jpc' = [jpc EXCEPT ![s] = "except"]
            /\ UNCHANGED <<redis_logs, proc>>
       ELSE IF is_stop_requested(s)
       THEN /\ redis_logs' = [redis_logs EXCEPT ![s] = PushTrim(@, "stopping")]
            /\ proc' = [proc EXCEPT ![s].termSent = @ \/ Alive(s)]
            /\ jpc' = [jpc EXCEPT ![s] = "wait"]
       ELSE /\ redis_logs' = [redis_logs EXCEPT ![s] = PushTrim(@, "out")]
            /\ jpc' = [jpc EXCEPT ![s] = AfterPoll(s)]
            /\ UNCHANGED proc
    /\ UNCHANGED <<embVars, auxVars, pool, redis_up, redis_hash, running_set, agent_queue,
                   opc, oarg>>

\* readline returns "" once the worker has exited and its output is drained
JobEOF(s) ==
    /\ jpc[s] = "relay"
    /\ pipe[s] = 0
    /\ Exited(s)
    /\ jpc' = [jpc EXCEPT ![s] = "wait"]
    /\ UNCHANGED <<embVars, auxVars, pool, proc, pipe, redisVarsButJpc>>

\* readline raises (output that cannot be decoded)
JobRelayRaise(s) ==
    /\ jpc[s] = "relay"
    /\ pipe[s] > 0
    /\ pipe' = [pipe EXCEPT ![s] = @ - 1]
    /\ jpc' = [jpc EXCEPT ![s] = "except"]
    /\ UNCHANGED <<embVars, auxVars, pool, proc, redisVarsButJpc>>

\* process.wait() has returned; the line chosen by the exit code
JobClassify(s) ==
    /\ jpc[s] = "wait"
    /\ Exited(s)
    /\ IF redis_up
       THEN /\ redis_logs' = [redis_logs EXCEPT ![s] = PushTrim(@, ExitLine(proc[s].code))]
            /\ jpc' = [jpc EXCEPT ![s] = "finally"]
       ELSE /\ jpc' = [jpc EXCEPT ![s] = "except"]
            /\ UNCHANGED redis_logs
    /\ UNCHANGED <<embVars, auxVars, pool, proc, pipe, redis_up, redis_hash, running_set,
                   agent_queue, opc, oarg>>

\* except Exception: the error line (if this append raises too, the finally
\* block still runs)
JobExcept(s) ==
    /\ jpc[s] = "except"
    /\ redis_logs' = [redis_logs EXCEPT ![s] = IF redis_up THEN PushTrim(@, "error") ELSE @]
    /\ jpc' = [jpc EXCEPT ![s] = "finally"]
    /\ UNCHANGED <<embVars, auxVars, pool, proc, pipe, redis_up, redis_hash, running_set,
                   agent_queue, opc, oarg>>

\* finally, mark_session_finished: update_session(running=False,
\* stop_requested=False, last_run=now)
JobFinallyMark(s) ==
    /\ jpc[s] = "finally"
    /\ IF redis_up
       THEN /\ redis_hash' = [redis_hash EXCEPT ![s] = Hset(@, FinishedMapping)]
            /\ jpc' = [jpc EXCEPT ![s] = "fin_srem"]
       ELSE /\ jpc' = [jpc EXCEPT ![s] = "raised"]
            /\ UNCHANGED redis_hash
    /\ UNCHANGED <<embVars, auxVars, pool, proc, pipe, redis_up, redis_logs, running_set,
                   agent_queue, opc, oarg>>

\* finally, mark_session_finished: SREM agent:sessions:running
JobFinallySrem(s) ==
    /\ jpc[s] = "fin_srem"
    /\ IF redis_up
       THEN /\ running_set' = running_set \ {s}
            /\ jpc' = [jpc EXCEPT ![s] = "fin_clear"]
       ELSE /\ jpc' = [jpc EXCEPT ![s] = "raised"]
            /\ UNCHANGED running_set
    /\ UNCHANGED <<embVars, auxVars, pool, proc, pipe, redis_up, redis_hash, redis_logs,
                   agent_queue, opc, oarg>>

\* finally: update_session(process_pid="", current_lesson="")
JobFinallyClear(s) ==
    /\ jpc[s] = "fin_clear"
    /\ IF redis_up
       THEN /\ redis_hash' = [redis_hash EXCEPT ![s] =
                    Hset(@, [process_pid |-> "", current_lesson |-> ""])]
            /\ jpc' = [jpc EXCEPT ![s] = "fin_kill"]
       ELSE /\ jpc' = [jpc EXCEPT ![s] = "raised"]
            /\ UNCHANGED redis_hash
    /\ UNCHANGED <<embVars, auxVars, pool, proc, pipe, redis_up, redis_logs, running_set,
                   agent_queue, opc, oarg>>

\* finally: process.kill() if the process has not exited
JobFinallyKill(s) ==
    /\ jpc[s] = "fin_kill"
    /\ proc' = [proc EXCEPT ![s] =
            IF Alive(s) THEN [state |-> "exited", code |-> -9, termSent |-> FALSE] ELSE @]
    /\ jpc' = [jpc EXCEPT ![s] = "done"]
    /\ UNCHANGED <<embVars, auxVars, pool, pipe, redisVarsButJpc>>

-----------------------------------------------------------------------------
\* orchestrator requests, queue jobs, Redis outages
SharedControlSteps ==
    \/ RedisDown
    \/ RedisRestored
    \/ \E o \in Orchestrators : OCreateReject(o)
    \/ \E o \in Orchestrators, m \in Modes, s \in SessionIds : OCreateCheck(o, m, s)
    \/ \E o \in Orchestrators : OCreateHset(o)
    \/ \E o \in Orchestrators : OCreateSadd(o)
    \/ \E o \in Orchestrators : OCreateRaise(o)
    \/ \E o \in Orchestrators : Enqueue(o)
    \/ \E o \in Orchestrators : OReturn(o)
    \/ \E s \in SessionIds : RequestStop(s)
    \/ \E s \in SessionIds : JobDequeue(s)
    \/ \E s \in SessionIds : JobClearLogs(s)
    \/ \E s \in SessionIds : JobMarkRunning(s)
    \/ \E s \in SessionIds : JobAnnounce(s)
    \/ \E s \in SessionIds : JobSpawn(s)
    \/ \E s \in SessionIds : JobSpawnFail(s)
    \/ \E s \in SessionIds : JobStorePid(s)
    \/ \E s \in SessionIds : JobEOF(s)
    \/ \E s \in SessionIds : JobClassify(s)
    \/ \E s \in SessionIds : JobExcept(s)
    \/ \E s \in SessionIds : JobFinallyMark(s)
    \/ \E s \in SessionIds : JobFinallySrem(s)
    \/ \E s \in SessionIds : JobFinallyClear(s)
    \/ \E s \in SessionIds : JobFinallyKill(s)
    \/ \E s \in SessionIds, code \in ExitCodes : WorkerExit(s, code)

\* the worker's output, its relay into the log, and the stop it triggers
JobOutputSteps ==
    \/ \E s \in SessionIds : WorkerEmit(s)
    \/ \E s \in SessionIds : JobRelayLine(s)
    \/ \E s \in SessionIds : JobRelayRaise(s)
    \/ \E s \in SessionIds : WorkerTerminated(s)

\* Shared-store admission: two orchestrator instances, every id can be
\* handed out; the workers are silent.
InitShared == InitTable(SessionIds)
NextShared == SharedControlSteps
SpecShared == InitShared /\ [][NextShared]_vars

\* One session's queue job in full.
InitJob == InitTable({"s1"})
NextJob == SharedControlSteps \/ JobOutputSteps
SpecJob == InitJob /\ [][NextJob]_vars

\* every step of the queue job of a session
JobSteps(s) ==
    \/ JobClearLogs(s) \/ JobMarkRunning(s) \/ JobAnnounce(s)
    \/ JobSpawn(s) \/ JobSpawnFail(s) \/ JobStorePid(s)
    \/ JobRelayLine(s) \/ JobEOF(s) \/ JobRelayRaise(s)
    \/ JobClassify(s) \/ JobExcept(s)
    \/ JobFinallyMark(s) \/ JobFinallySrem(s) \/ JobFinallyClear(s) \/ JobFinallyKill(s)

\* The queue job under the scheduling the RQ worker process gives it: a job
\* that can take a step takes it. Nothing is assumed of the agent
\* subprocess: it may go on for ever and it may ignore SIGTERM.
SpecJobFair == SpecJob /\ \A s \in SessionIds : WF_vars(JobSteps(s))

\* The orchestrator of the queue topology, its stop route included: the
\* routes of app/api/routes.py are the same in both topologies, and
\* stop_agent looks the id up in the in-process table.
InitQueue == InitTable({"s1"})
NextQueue ==
    \/ NextJob
    \/ \E c \in Callers : StopEmptyId(c)
    \/ \E c \in Callers, sid \in SessionIds : StopNotFound(c, sid)
    \/ \E c \in Callers : Respond(c)
SpecQueue == InitQueue /\ [][NextQueue]_vars

-----------------------------------------------------------------------------
(* sessions.append_log and sessions.get_logs, on one existing session of   *)
(* each backing: one caller appends line after line, another reads.        *)

\* lines appended in one run
MaxAppend == 6

LogSession == "s1"

\* the k-th line appended
LineText(k) == ToString(k)

\* sessions.get_logs: LRANGE 0 -1, or session.get("logs", [])
get_logs(b, s) ==
    IF b = "redis" THEN redis_logs[s]
    ELSE IF Known(s) THEN agent_sessions[s].logs ELSE <<>>

\* append_log, in-process branch: logs.append(message)
AppendLogMem ==
    /\ apc["memory"] = "idle"
    /\ Len(appended["memory"]) < MaxAppend
    /\ Known(LogSession)
    /\ LET line == LineText(Len(appended["memory"]) + 1)
           logs == Append(agent_sessions[LogSession].logs, line)
       IN /\ agent_sessions' = [agent_sessions EXCEPT ![LogSession].logs = logs]
          /\ appended' = [appended EXCEPT !["memory"] = Append(@, line)]
          /\ apc' = [apc EXCEPT !["memory"] =
                    IF Len(logs) > RedisLogBound THEN "slice" ELSE "idle"]
    /\ UNCHANGED <<redisVars, apiVars, got, pool, sessions_lock, pc, arg, result, snap, rpc,
                   sliced, proc, pipe, stopOk>>

\* append_log, in-process branch: session["logs"] = logs[-LOG_LIMIT:]
AppendLogMemSlice ==
    /\ apc["memory"] = "slice"
    /\ agent_sessions' = [agent_sessions EXCEPT
            ![LogSession].logs = LastN(@, RedisLogBound)]
    /\ apc' = [apc EXCEPT !["memory"] = "idle"]
    /\ UNCHANGED <<redisVars, apiVars, appended, got, pool, sessions_lock, pc, arg, result,
                   snap, rpc, sliced, proc, pipe, stopOk>>

\* append_log, Redis branch: RPUSH
AppendLogRpush ==
    /\ apc["redis"] = "idle"
    /\ Len(appended["redis"]) < MaxAppend
    /\ redis_up
    /\ LET line == LineText(Len(appended["redis"]) + 1)
       IN /\ redis_logs' = [redis_logs EXCEPT ![LogSession] = Append(@, line)]
          /\ appended' = [appended EXCEPT !["redis"] = Append(@, line)]
    /\ apc' = [apc EXCEPT !["redis"] = "ltrim"]
    /\ UNCHANGED <<embVars, apiVars, got, pool, proc, pipe, redis_up, redis_hash,
                   running_set, agent_queue, opc, oarg, jpc>>

\* append_log, Redis branch: LTRIM -LOG_LIMIT -1
AppendLogLtrim ==
    /\ apc["redis"] = "ltrim"
    /\ redis_up
    /\ redis_logs' = [redis_logs EXCEPT ![LogSession] = LastN(@, RedisLogBound)]
    /\ apc' = [apc EXCEPT !["redis"] = "idle"]
    /\ UNCHANGED <<embVars, apiVars, appended, got, pool, proc, pipe, redis_up, redis_hash,
                   running_set, agent_queue, opc, oarg, jpc>>

\* a get_logs call of another caller
GetLogs(b) ==
    /\ b = "redis" => redis_up
    /\ got' = [got EXCEPT ![b] = get_logs(b, LogSession)]
    /\ UNCHANGED <<embVars, redisVars, apiVars, appended, apc, pool, proc, pipe>>

\* the state after create_session has made LogSession in both backings
InitLog ==
    /\ pool = {LogSession}
    /\ agent_sessions = (LogSession :> NewSession("single"))
    /\ sessions_lock = NoOne
    /\ pc = [c \in Callers |-> "idle"]
    /\ arg = [c \in Callers |-> None]
    /\ result = [c \in Callers |-> None]
    /\ snap = [c \in Callers |-> {}]
    /\ rpc = [s \in SessionIds |-> "none"]
    /\ sliced = [s \in SessionIds |-> <<>>]
    /\ proc = [s \in SessionIds |-> NoProc]
    /\ pipe = [s \in SessionIds |-> 0]
    /\ stopOk = [s \in SessionIds |-> FALSE]
    /\ redis_up = TRUE
    /\ redis_hash = [s \in SessionIds |->
            IF s = LogSession THEN CreateMapping("single") ELSE <<>>]
    /\ redis_logs = [s \in SessionIds |-> <<>>]
    /\ running_set = {LogSession}
    /\ agent_queue = {}
    /\ opc = [o \in Orchestrators |-> "idle"]
    /\ oarg = [o \in Orchestrators |-> NoArg]
    /\ jpc = [s \in SessionIds |-> "none"]
    /\ req = [c \in Callers |-> NoReq]
    /\ reply = [c \in Callers |-> NoReply]
    /\ emitted = [s \in SessionIds |-> 0]
    /\ threads = [s \in SessionIds |-> 0]
    /\ appended = [b \in Backings |-> <<>>]
    /\ apc = [b \in Backings |-> "idle"]
    /\ got = [b \in Backings |-> <<>>]

NextLog ==
    \/ AppendLogMem
    \/ AppendLogMemSlice
    \/ AppendLogRpush
    \/ AppendLogLtrim
    \/ \E b \in Backings : GetLogs(b)
SpecLog == InitLog /\ [][NextLog]_vars

-----------------------------------------------------------------------------
(* The routes of app/api/routes.py, each handler as one step: they are     *)
(* `async def` without an await, so the event loop runs one at a time.     *)

\* longest lesson_ids string tried
MaxIdsLen == 2

\* lines a worker prints in one run, and how many of them can wait unread
MaxEmit == 3
MaxUnread == 2
MaxThreads == 2
MaxPairLines == 1
MaxCredLen == 1

Chars == {" ", ",", "9"}
LessonIdInputs == UNION {[1..n -> Chars] : n \in 0..MaxIdsLen}

\* request bodies; a missing unix_email / unix_password is "" (schemas.py)
Requests(mode) ==
    [mode : {mode}, unix_email : {"", "e"}, unix_password : {"", "p"},
     lesson_ids : IF mode = "batch" THEN LessonIdInputs ELSE {<<"9">>}]

\* str.split(",")
RECURSIVE Split(_)
Split(str) ==
    IF \A i \in 1..Len(str) : str[i] # ","
    THEN <<str>>
    ELSE LET k == CHOOSE i \in 1..Len(str) :
                    str[i] = "," /\ \A j \in 1..(i - 1) : str[j] # ","
         IN <<SubSeq(str, 1, k - 1)>> \o Split(SubSeq(str, k + 1, Len(str)))

\* str.strip()
RECURSIVE Strip(_)
Strip(str) ==
    IF str = <<>> THEN str
    ELSE IF Head(str) = " " THEN Strip(Tail(str))
    ELSE IF str[Len(str)] = " " THEN Strip(SubSeq(str, 1, Len(str) - 1))
    ELSE str

\* the event loop takes up a request when the handler before has responded
EventLoopFree == \A d \in Callers : pc[d] = "idle"

\* request.unix_email and request.unix_password are both non-empty
HasCredentials(r) == r.unix_email # "" /\ r.unix_password # ""

HasLessonId_Unchecked(ids) == TRUE

\* request.lesson_ids and any(item.strip() for item in lesson_ids.split(","))
HasLessonId(ids) ==
    /\ ids # <<>>
    /\ \E i \in 1..Len(Split(ids)) : Strip(Split(ids)[i]) # <<>>

\* the checks a start handler makes before create_session
ValidStart(r) == HasCredentials(r) /\ (r.mode = "batch" => HasLessonId(r.lesson_ids))

\* start_agent / start_batch_agent: 400 on invalid input; else
\* create_session (503 at capacity) and the runner thread is started
StartHandler(c, r) ==
    /\ EventLoopFree
    /\ pc' = [pc EXCEPT ![c] = "return"]
    /\ arg' = [arg EXCEPT ![c] = r.mode]
    /\ req' = [req EXCEPT ![c] = r]
    /\ IF ~ValidStart(r)
       THEN /\ result' = [result EXCEPT ![c] = "400"]
            /\ UNCHANGED <<agent_sessions, rpc, threads>>
       ELSE /\ LockAvailable
            /\ IF _running_count >= MAX_CONCURRENT_AGENTS
               THEN /\ result' = [result EXCEPT ![c] = "503"]
                    /\ UNCHANGED <<agent_sessions, rpc, threads>>
               ELSE \E s \in pool \ DOMAIN agent_sessions :
                        /\ agent_sessions' = agent_sessions @@ (s :> NewSession(r.mode))
                        /\ rpc' = [rpc EXCEPT ![s] = "start"]
                        /\ threads' = [threads EXCEPT ![s] = @ + 1]
                        /\ result' = [result EXCEPT ![c] = s]
    /\ UNCHANGED <<redisVars, reply, emitted, logVars, pool, sessions_lock, snap, sliced,
                   proc, pipe, stopOk>>

StartAgent(c, r) == r.mode = "single" /\ StartHandler(c, r)
StartBatchAgent(c, r) == r.mode = "batch" /\ StartHandler(c, r)

UnknownStatus_Raises == [running |-> FALSE, current_lesson |-> None, last_run |-> None,
                         log_count |-> 0, raised |-> "404"]

\* AgentStatus(running=False, current_lesson=None, last_run=None, log_count=0)
UnknownStatus == [running |-> FALSE, current_lesson |-> None, last_run |-> None,
                  log_count |-> 0, raised |-> None]

\* get_agent_status
AgentStatus(sid) ==
    IF sid = "" \/ ~Known(sid) THEN UnknownStatus
    ELSE [running |-> agent_sessions[sid].running,
          current_lesson |-> agent_sessions[sid].current_lesson,
          last_run |-> agent_sessions[sid].last_run,
          log_count |-> Len(agent_sessions[sid].logs),
          raised |-> None]

\* get_agent_logs
AgentLogs(sid) ==
    IF sid = "" \/ ~Known(sid) THEN <<>> ELSE agent_sessions[sid].logs

\* GET /api/agent/status
GetAgentStatus(c, sid) ==
    /\ EventLoopFree
    /\ pc' = [pc EXCEPT ![c] = "return"]
    /\ arg' = [arg EXCEPT ![c] = sid]
    /\ reply' = [reply EXCEPT ![c] = [kind |-> "status", status |-> AgentStatus(sid)]]
    /\ UNCHANGED <<redisVars, req, emitted, threads, logVars, pool, agent_sessions,
                   sessions_lock, result, snap, rpc, sliced, proc, pipe, stopOk>>

\* GET /api/agent/logs
GetAgentLogs(c, sid) ==
    /\ EventLoopFree
    /\ pc' = [pc EXCEPT ![c] = "return"]
    /\ arg' = [arg EXCEPT ![c] = sid]
    /\ reply' = [reply EXCEPT ![c] = [kind |-> "logs", logs |-> AgentLogs(sid)]]
    /\ UNCHANGED <<redisVars, req, emitted, threads, logVars, pool, agent_sessions,
                   sessions_lock, result, snap, rpc, sliced, proc, pipe, stopOk>>

\* the worker writes a line to its standard output (counted)
WorkerWrite(s) ==
    /\ Alive(s)
    /\ emitted[s] < MaxEmit
    /\ pipe[s] < MaxUnread
    /\ pipe' = [pipe EXCEPT ![s] = @ + 1]
    /\ emitted' = [emitted EXCEPT ![s] = @ + 1]
    /\ UNCHANGED <<redisVars, req, reply, threads, logVars, pool, agent_sessions,
                   sessions_lock, pc, arg, result, snap, rpc, sliced, proc, stopOk>>

\* Start, status and logs requests, the runner and a worker that is left
\* to run to its end.
InitApi == InitTable({"s1"})
NextApi ==
    \/ \E c \in Callers, r \in Requests("single") : StartAgent(c, r)
    \/ \E c \in Callers, r \in Requests("batch") : StartBatchAgent(c, r)
    \/ \E c \in Callers, sid \in SessionIds \cup {""} : GetAgentStatus(c, sid)
    \/ \E c \in Callers, sid \in SessionIds \cup {""} : GetAgentLogs(c, sid)
    \/ \E c \in Callers : Respond(c)
    \/ \E s \in SessionIds : RunnerStart(s)
    \/ \E s \in SessionIds : RunnerSpawn(s)
    \/ \E s \in SessionIds : RunnerSpawnFail(s)
    \/ \E s \in SessionIds : WorkerWrite(s)
    \/ \E s \in SessionIds : RunnerRelayLine(s)
    \/ \E s \in SessionIds : RunnerRelayRaise(s)
    \/ \E s \in SessionIds : RunnerEOF(s)
    \/ \E s \in SessionIds, code \in ExitCodes : WorkerExit(s, code)
    \/ \E s \in SessionIds : RunnerClassify(s)
    \/ \E s \in SessionIds : RunnerExcept(s)
    \/ \E s \in SessionIds : RunnerFinally(s)
SpecApi == InitApi /\ [][NextApi]_vars

-----------------------------------------------------------------------------
(* sessions.update_session and the operations built on it, called on an   *)
(* id the store holds (LogSession) and on one it does not.                 *)

StoreOps == {"mark_session_finished", "set_job_id", "request_stop"}

\* the keyword arguments each operation passes to update_session
Fields(op) ==
    CASE op = "mark_session_finished" ->
            [running |-> FALSE, stop_requested |-> FALSE, last_run |-> "t"]
      [] op = "set_job_id" -> [job_id |-> "j"]
      [] op = "request_stop" -> [stop_requested |-> TRUE]
      [] op = "update_running" -> [running |-> TRUE, current_lesson |-> "lesson"]

\* the same arguments as update_session maps them for HSET: str(value)
Mapped(op) ==
    CASE op = "mark_session_finished" -> FinishedMapping
      [] op = "set_job_id" -> [job_id |-> "j"]
      [] op = "request_stop" -> [stop_requested |-> "True"]
      [] op = "update_running" -> [running |-> "True", current_lesson |-> "lesson"]

\* sessions.get_session of either backing; <<>> is the empty dict
GetSessionOf(b, s) ==
    IF s = "" THEN <<>>
    ELSE IF b = "redis" THEN get_session(s)
    ELSE IF Known(s) THEN agent_sessions[s] ELSE <<>>

\* update_session, in-process branch: session.update(fields) if the table
\* holds the id
UpdateSessionMem(op, s) ==
    /\ agent_sessions' =
            IF Known(s) THEN [agent_sessions EXCEPT ![s] = Hset(@, Fields(op))]
            ELSE agent_sessions
    /\ UNCHANGED <<redisVars, auxVars, pool, sessions_lock, pc, arg, result, snap, rpc,
                   sliced, proc, pipe, stopOk>>

\* update_session, Redis branch: HSET of the mapped fields;
\* mark_session_finished then SREM agent:sessions:running
UpdateSessionRedis(op, s) ==
    /\ redis_up
    /\ redis_hash' = [redis_hash EXCEPT ![s] = Hset(@, Mapped(op))]
    /\ running_set' =
            IF op = "mark_session_finished" THEN running_set \ {s} ELSE running_set
    /\ UNCHANGED <<embVars, auxVars, pool, proc, pipe, redis_up, redis_logs, agent_queue,
                   opc, oarg, jpc>>

InitStore == InitLog
NextStore ==
    \/ \E op \in StoreOps, s \in SessionIds : UpdateSessionMem(op, s)
    \/ \E op \in StoreOps, s \in SessionIds : UpdateSessionRedis(op, s)
SpecStore == InitStore /\ [][NextStore]_vars

-----------------------------------------------------------------------------
(* The shared store under whole operations on sessions it holds:           *)
(* create_session, the update_session(running=True, ...) of a queue job,   *)
(* mark_session_finished, set_job_id and request_stop, in any order.       *)

\* what a queue job and its callers pass to update_session
SetOps == StoreOps \cup {"update_running"}

\* create_session, Redis branch, from the capacity check to the return
StoreCreate(s, mode) ==
    /\ redis_up
    /\ Scard < MAX_CONCURRENT_AGENTS
    /\ DOMAIN redis_hash[s] = {}
    /\ redis_hash' = [redis_hash EXCEPT ![s] = Hset(@, CreateMapping(mode))]
    /\ redis_logs' = [redis_logs EXCEPT ![s] = <<>>]
    /\ running_set' = running_set \cup {s}
    /\ UNCHANGED <<embVars, auxVars, pool, proc, pipe, redis_up, agent_queue, opc, oarg, jpc>>

\* an operation on a session create_session has stored
StoreUpdate(op, s) ==
    /\ DOMAIN redis_hash[s] # {}
    /\ UpdateSessionRedis(op, s)

InitSet == InitTable(SessionIds)
NextSet ==
    \/ \E s \in SessionIds, m \in Modes : StoreCreate(s, m)
    \/ \E op \in SetOps, s \in SessionIds : StoreUpdate(op, s)
SpecSet == InitSet /\ [][NextSet]_vars

-----------------------------------------------------------------------------
(* The routes as uvicorn runs them. Every route of routes.py is an         *)
(* `async def` without an await in it, so a handler runs on the event loop *)
(* thread from its first line to its return, time.sleep(2) of              *)
(* stop_agent_by_session included, and the loop takes up the next request  *)
(* only then. The runner threads and the workers run beside the loop.      *)

\* POST /api/agent/start, /api/agent/batch: the handler enters create_session
LoopStart(c, mode) ==
    /\ EventLoopFree
    /\ (CreateSessionReject(c, mode) \/ CreateSessionCheck(c, mode))

\* POST /api/agent/stop: the handler enters stop_agent
LoopStop(c, sid) ==
    /\ EventLoopFree
    /\ \/ sid = "" /\ StopEmptyId(c)
       \/ sid # "" /\ (StopNotFound(c, sid) \/ StopNotRunning(c, sid)
                        \/ StopNoProcess(c, sid) \/ StopTerminate(c, sid))

\* the steps of the handler the loop is running
LoopHandlerSteps ==
    \/ \E c \in Callers : CreateSessionRegister(c)
    \/ \E c \in Callers : StopLog(c)
    \/ \E c \in Callers : StopEscalate(c)
    \/ \E c \in Callers : StopFinish(c)
    \/ \E c \in Callers : Respond(c)

\* the runner thread of a session and its worker
RunnerSteps(s) ==
    \/ RunnerStart(s) \/ RunnerSpawn(s) \/ RunnerSpawnFail(s)
    \/ RunnerRelayLine(s) \/ RunnerTrimStore(s) \/ RunnerEOF(s) \/ RunnerRelayRaise(s)
    \/ RunnerClassify(s) \/ RunnerExcept(s) \/ RunnerFinally(s)

WorkerSteps(s) ==
    \/ WorkerEmit(s)
    \/ \E code \in ExitCodes : WorkerExit(s, code)
    \/ WorkerTerminated(s)

InitLoop == InitTable({"s1"})
NextLoop ==
    \/ \E c \in Callers, m \in Modes : LoopStart(c, m)
    \/ \E c \in Callers, sid \in SessionIds \cup {""} : LoopStop(c, sid)
    \/ \E c \in Callers, sid \in SessionIds \cup {""} : GetAgentStatus(c, sid)
    \/ \E c \in Callers, sid \in SessionIds \cup {""} : GetAgentLogs(c, sid)
    \/ LoopHandlerSteps
    \/ \E s \in SessionIds : RunnerSteps(s)
    \/ \E s \in SessionIds : WorkerSteps(s)
SpecLoop == InitLoop /\ [][NextLoop]_vars

\* A runner thread is a thread of the server process: when it can take a
\* step the scheduler lets it. Nothing is assumed of the clients or of the
\* workers, which may run for ever.
SpecLoopFair == SpecLoop /\ \A s \in SessionIds : WF_vars(RunnerSteps(s))

-----------------------------------------------------------------------------
\* Two sessions side by side: every id can be handed out, the routes run on
\* the event loop, the workers print MaxPairLines lines between them.
PairWrite(s) ==
    /\ emitted["s1"] + emitted["s2"] < MaxPairLines
    /\ WorkerWrite(s)

RunnerStepsCounted(s) ==
    \/ RunnerStart(s) \/ RunnerSpawn(s) \/ RunnerSpawnFail(s)
    \/ RunnerRelayLine(s) \/ RunnerEOF(s) \/ RunnerRelayRaise(s)
    \/ RunnerClassify(s) \/ RunnerExcept(s) \/ RunnerFinally(s)
    \/ PairWrite(s)
    \/ \E code \in ExitCodes : WorkerExit(s, code)
    \/ WorkerTerminated(s)

\* the loop runs one handler at a time: one request slot is enough
LoopSlot == "t1"

\* the sessions are batch sessions: run_batch_agent has every step of
\* run_single_agent and clears the process handle once more
PairModes == {"batch"}

InitPair == InitTable(SessionIds)
NextPair ==
    \/ \E m \in PairModes : LoopStart(LoopSlot, m)
    \/ \E sid \in SessionIds : LoopStop(LoopSlot, sid)
    \/ \E sid \in SessionIds : GetAgentStatus(LoopSlot, sid)
    \/ \E sid \in SessionIds : GetAgentLogs(LoopSlot, sid)
    \/ LoopHandlerSteps
    \/ \E s \in SessionIds : RunnerStepsCounted(s)
SpecPair == InitPair /\ [][NextPair]_vars

-----------------------------------------------------------------------------
(* create_session with the id as the code draws it: str(uuid.uuid4())[:8], *)
(* stored without a look at the table. The id space is scaled down to      *)
(* SessionIds; the runner threads are started and have not run yet.        *)

\* the record is stored under the drawn id, whatever the table holds, the
\* lock released, and the route starts a runner thread for that id
CreateSessionDraw(c) ==
    /\ pc[c] = "create_register"
    /\ \E s \in pool :
        /\ threads[s] < MaxThreads
        /\ agent_sessions' =
                [x \in DOMAIN agent_sessions \cup {s} |->
                    IF x = s THEN NewSession(arg[c]) ELSE agent_sessions[x]]
        /\ rpc' = [rpc EXCEPT ![s] = "start"]
        /\ threads' = [threads EXCEPT ![s] = @ + 1]
        /\ result' = [result EXCEPT ![c] = s]
    /\ sessions_lock' = NoOne
    /\ pc' = [pc EXCEPT ![c] = "return"]
    /\ snap' = [snap EXCEPT ![c] = {}]
    /\ UNCHANGED <<redisVars, req, reply, emitted, logVars, pool, arg, sliced, proc, pipe,
                   stopOk>>

InitIds == InitTable(SessionIds)
NextIds ==
    \/ \E c \in Callers, m \in Modes : CreateSessionReject(c, m)
    \/ \E c \in Callers, m \in Modes : CreateSessionCheck(c, m)
    \/ \E c \in Callers : CreateSessionDraw(c)
    \/ \E c \in Callers : Respond(c)
    \/ \E c \in Callers : StopEmptyId(c)
    \/ \E c \in Callers, sid \in SessionIds : StopNotFound(c, sid)
    \/ \E c \in Callers, sid \in SessionIds : StopNotRunning(c, sid)
    \/ \E c \in Callers, sid \in SessionIds : StopNoProcess(c, sid)
SpecIds == InitIds /\ [][NextIds]_vars

-----------------------------------------------------------------------------
(* What a runner writes into its session's log, as a function of the       *)
(* request and of what happens to the worker: run_single_agent,            *)
(* run_batch_agent and the lines stop_agent_by_session adds. Two requests  *)
(* are run side by side under the same outcome.                            *)

\* the characters of an email or password; "NUL" is the character \0
CredChars == {"a", "b", "NUL"}
CredValues == UNION {[1..n -> CredChars] : n \in 1..MaxCredLen}

\* start requests that pass the handlers' checks
CredRequests ==
    [mode : Modes, unix_email : CredValues, unix_password : CredValues,
     lesson_ids : {<<"9">>}]

\* what happens to the worker: whether the OS can spawn it, whether a stop
\* is requested, and its exit code
Outcomes == [spawns : BOOLEAN, stopped : BOOLEAN, code : ExitCodes \cup {-15, -9}]

\* env["UNIX_EMAIL"] = ..., env["UNIX_PASSWORD"] = ...; subprocess.Popen(env=env)
\* raises ValueError('embedded null byte') for a value with \0 in it
EnvAccepts(v) == \A i \in 1..Len(v) : v[i] # "NUL"

OwnLine(kind, ids, text) == [kind |-> kind, ids |-> ids, text |-> text]

StartLinesOf_WithEmail(r) ==
    [i \in 1..Len(StartLines(r.mode)) |-> OwnLine(StartLines(r.mode)[i], r.unix_email, "")]

\* the announcement lines: the lesson id(s) and the skip flag, nothing else
StartLinesOf(r) ==
    [i \in 1..Len(StartLines(r.mode)) |-> OwnLine(StartLines(r.mode)[i], r.lesson_ids, "")]

\* str(error) of the exception Popen raises, "" if it raises none
SpawnError(r, o) ==
    IF ~EnvAccepts(r.unix_email) \/ ~EnvAccepts(r.unix_password) THEN "embedded null byte"
    ELSE IF ~o.spawns THEN "oserror"
    ELSE ""

\* the lines of a run that are not relayed worker output
RunnerOwnLines(r, o) ==
    StartLinesOf(r) \o
        IF SpawnError(r, o) # ""
        THEN <<OwnLine("error", <<>>, SpawnError(r, o))>>
        ELSE (IF o.stopped THEN <<OwnLine("stopping", <<>>, "")>> ELSE <<>>)
             \o (IF o.stopped /\ o.code = -9 THEN <<OwnLine("forcekill", <<>>, "")>> ELSE <<>>)
             \o <<OwnLine(ExitLine(o.code), <<>>,
                          IF r.mode = "single" /\ ExitLine(o.code) = "finished"
                          THEN ToString(o.code) ELSE "")>>

\* the two requests are the same but for unix_email and unix_password
SameButCredentials(r1, r2) == r1.mode = r2.mode /\ r1.lesson_ids = r2.lesson_ids

\* a start request arrives; it matches the one that is waiting, if any
CredsStart(c, r) ==
    /\ pc[c] = "idle"
    /\ \A d \in Callers \ {c} : pc[d] \in {"idle", "run"}
    /\ \A d \in Callers \ {c} : pc[d] = "run" => SameButCredentials(r, req[d])
    /\ req' = [req EXCEPT ![c] = r]
    /\ pc' = [pc EXCEPT ![c] = "run"]
    /\ UNCHANGED <<redisVars, reply, emitted, threads, logVars, pool, agent_sessions,
                   sessions_lock, arg, result, snap, rpc, sliced, proc, pipe, stopOk>>

\* both runs go to their end under outcome o; each client reads the lines
\* the runner wrote into its session's log
CredsRun(o) ==
    /\ \A c \in Callers : pc[c] = "run"
    /\ reply' = [c \in Callers |-> [kind |-> "own_lines", logs |-> RunnerOwnLines(req[c], o)]]
    /\ pc' = [c \in Callers |-> "return"]
    /\ UNCHANGED <<redisVars, req, emitted, threads, logVars, pool, agent_sessions,
                   sessions_lock, arg, result, snap, rpc, sliced, proc, pipe, stopOk>>

\* both answers are there, the requests still at hand
CredsAnswered(c) == pc[c] = "return" /\ reply[c].kind = "own_lines" /\ req[c] # NoReq

\* the client has read its lines
CredsRead(c) ==
    /\ CredsAnswered(c)
    /\ Respond(c)

InitCreds == InitTable(SessionIds)
NextCreds ==
    \/ \E c \in Callers, r \in CredRequests : CredsStart(c, r)
    \/ \E o \in Outcomes : CredsRun(o)
    \/ \E c \in Callers : CredsRead(c)
SpecCreds == InitCreds /\ [][NextCreds]_vars

-----------------------------------------------------------------------------
(* Admission *)

\* C1: in every reachable state the number of sessions whose running flag
\* is true is at most MAX_CONCURRENT_AGENTS.
C1_AdmissionCeiling == _running_count <= MAX_CONCURRENT_AGENTS

CreateRejects(c) == pc[c] = "idle" /\ pc'[c] = "return" /\ result'[c] = "503"
CreateRegisters(c) == pc[c] = "create_register" /\ pc'[c] = "return"

C6_FinishedIsTerminal ==
    [][\A s \in SessionIds :
          (Known(s) /\ ~agent_sessions[s].running) => ~agent_sessions'[s].running]_vars

-----------------------------------------------------------------------------
(* Runner finalization *)

HasLine(s, line) == \E i \in 1..Len(agent_sessions[s].logs) : agent_sessions[s].logs[i] = line

\* C4: a runner that has ended leaves its session with running = false, the
\* process handle cleared and last_run set, on every exit path; when the
\* worker could not be spawned or the runner raised, the log holds the error
\* line, and otherwise the line that classifies the exit.
C4_RunnerFinalization ==
    \A s \in SessionIds :
        rpc[s] = "done" =>
            /\ ~agent_sessions[s].running
            /\ agent_sessions[s].process = None
            /\ agent_sessions[s].last_run # None
            /\ ~Exited(s) => HasLine(s, "error")
            /\ HasLine(s, "error") \/ HasLine(s, "stopped") \/ HasLine(s, "finished")

\* the worker could not be spawned and the runner has ended
C4_Witness ==
    /\ rpc["s1"] = "done"
    /\ proc["s1"].state = "none"
    /\ HasLine("s1", "error")
    /\ ~agent_sessions["s1"].running

-----------------------------------------------------------------------------
(* Stop *)

Count(seq, line) == Cardinality({i \in 1..Len(seq) : seq[i] = line})

\* a stop request for sid is taken up by thread c in this step
StopCallOn(c, sid) == pc[c] = "idle" /\ pc'[c] # "idle" /\ arg'[c] = sid

\* C7: a stop call that comes after a successful stop of the same session
\* returns success, sends no signal and appends no log line; no log holds
\* two 'Force killed' lines.
C7_IdempotentStop ==
    /\ [](\A s \in DOMAIN agent_sessions : Count(agent_sessions[s].logs, "forcekill") <= 1)
    /\ [][\A c \in Callers, s \in SessionIds :
            (StopCallOn(c, s) /\ stopOk[s]) =>
                /\ pc'[c] = "return" /\ result'[c] = "ok"
                /\ proc' = proc
                /\ agent_sessions'[s].logs = agent_sessions[s].logs]_vars

\* C8: a stop for an id the table does not hold raises 404, a stop with an
\* empty id raises 400; neither changes a session record, a log or a
\* process, and the caller does not hold the sessions lock afterwards.
C8_StopUnknownId ==
    [][\A c \in Callers, sid \in SessionIds \cup {""} :
          (StopCallOn(c, sid) /\ ~Known(sid)) =>
              /\ pc'[c] = "return"
              /\ result'[c] = IF sid = "" THEN "400" ELSE "404"
              /\ agent_sessions' = agent_sessions
              /\ proc' = proc
              /\ rpc' = rpc
              /\ sessions_lock' # c]_vars

\* a session exists and a stop for another, unknown id has been refused
C8_Witness ==
    \E c \in Callers :
        /\ pc[c] = "return" /\ result[c] = "404" /\ arg[c] = "s2"
        /\ Known("s1") /\ agent_sessions["s1"].running

\* the runner has ended and the worker was killed by a stop call
KilledAndDone(s) == Known(s) /\ rpc[s] = "done" /\ Exited(s) /\ proc[s].code = -9

\* a 'Stopping' line comes before a 'Force killed' line
StoppingThenForceKilled(logs) ==
    \E i, j \in 1..Len(logs) : i < j /\ logs[i] = "stopping" /\ logs[j] = "forcekill"

SignalSent(s) ==
    \/ ~proc[s].termSent /\ proc'[s].termSent
    \/ Alive(s) /\ proc'[s].state = "exited" /\ proc'[s].code = -9

\* C10: a terminate or kill is sent to a session's worker only when the
\* session's stop_requested flag is set and the 'Stopping' line is logged.
C10_CancellationOrdering ==
    [][\A s \in SessionIds :
          SignalSent(s) => (agent_sessions[s].stop_requested /\ HasLine(s, "stopping"))]_vars

-----------------------------------------------------------------------------
(* Shared store *)

\* C3: with several orchestrator instances on one Redis the cardinality of
\* agent:sessions:running never exceeds MAX_CONCURRENT_AGENTS.
C3_SharedAdmissionCeiling == Scard <= MAX_CONCURRENT_AGENTS

\* C5: a queue job that has ended, normally or by an exception, leaves its
\* session with running = false, out of the running set and with
\* process_pid cleared.
C5_JobFinalization ==
    \A s \in SessionIds :
        jpc[s] \in {"done", "raised"} =>
            /\ ~Get(get_session(s), "running", FALSE)
            /\ s \notin running_set
            /\ Get(get_session(s), "process_pid", None) = None

-----------------------------------------------------------------------------
(* Cancellation in the queue topology *)

\* C11: once the queue job has sent SIGTERM to its agent process, the
\* session eventually has running = false and is out of the running set,
\* also when the agent ignores the signal (the forced kill after the grace
\* period sees to it). A Redis outage in between is not this claim's case.
C11_DistributedEscalation ==
    \A s \in SessionIds :
        (jpc[s] = "wait" /\ Alive(s) /\ proc[s].termSent)
            ~> \/ s \notin running_set /\ ~Get(get_session(s), "running", FALSE)
               \/ ~redis_up

\* C12: a stop request for a session whose job is still in the queue takes
\* the job off the queue and finalizes the session: running = false, out of
\* the running set.
C12_QueuedCancel ==
    [][\A c \in Callers, s \in SessionIds :
        (StopCallOn(c, s) /\ s \in agent_queue) =>
            /\ s \notin agent_queue'
            /\ s \notin running_set'
            /\ ~Get(_normalize_session(redis_hash'[s]), "running", FALSE)]_vars

\* C20: stop_requested, once true, stays true for the rest of the
\* session's life, finalization included.
C20_StopRequestedMonotone ==
    [][\A s \in SessionIds : is_stop_requested(s) => is_stop_requested(s)']_vars

-----------------------------------------------------------------------------
(* The log of a session *)

\* C13: the log of a session never holds more lines than its bound (200
\* single, 500 batch), whoever appended them: the relay loop, the runner's
\* start / finish / error lines, stop_agent_by_session.
C13_LogBound ==
    \A s \in DOMAIN agent_sessions :
        Len(agent_sessions[s].logs) <= LogBound(agent_sessions[s].mode)

IsPrefixOf(a, b) == Len(a) <= Len(b) /\ SubSeq(b, 1, Len(a)) = a
IsSuffixOf(a, b) == Len(a) <= Len(b) /\ SubSeq(b, Len(b) - Len(a) + 1, Len(b)) = a

\* C15: no line is lost or reordered by concurrent appending and trimming:
\* a step either appends lines at the end of a session's log or drops its
\* oldest lines, keeping all the others in their order.
C15_LogOrder ==
    [][\A s \in DOMAIN agent_sessions :
        LET old == agent_sessions[s].logs
            new == agent_sessions'[s].logs
        IN IsPrefixOf(old, new) \/ IsSuffixOf(new, old)]_vars

Min(a, b) == IF a <= b THEN a ELSE b

\* the last k entries of h
NewestLines(h, k) == [i \in 1..k |-> h[Len(h) - k + i]]

\* C14: after n lines have been appended with append_log, get_logs returns
\* exactly the last min(n, bound) of them in their order, in both backings.
C14_AppendThenGet ==
    \A b \in Backings :
        apc[b] = "idle" =>
            get_logs(b, LogSession)
                = NewestLines(appended[b], Min(Len(appended[b]), RedisLogBound))

\* more lines than the bound were appended and get_logs returned the newest
C14_Witness ==
    \E b \in Backings :
        /\ apc[b] = "idle"
        /\ Len(appended[b]) > RedisLogBound
        /\ got[b] = NewestLines(appended[b], RedisLogBound)

\* a contiguous run of the lines appended so far that ends at the newest or
\* the second-newest line and is no longer than the bound
ConsistentSnapshot(lines, h) ==
    /\ Len(lines) <= RedisLogBound
    /\ \E e \in {Len(h) - 1, Len(h)} :
        /\ e >= Len(lines)
        /\ lines = SubSeq(h, e - Len(lines) + 1, e)

\* C16: what a get_logs call returns while append_log runs on the same
\* session is a consistent snapshot.
C16_ConsistentRead ==
    [][\A b \in Backings :
        got'[b] # got[b] => ConsistentSnapshot(got'[b], appended[b])]_vars

-----------------------------------------------------------------------------
(* The routes *)

\* a single job that ran to a worker exit with code 0, with no exception
\* in the runner
HappyRun(s) ==
    /\ Known(s)
    /\ agent_sessions[s].mode = "single"
    /\ rpc[s] = "done"
    /\ Exited(s)
    /\ proc[s].code = 0
    /\ ~HasLine(s, "error")

WorkerLines(k) == [i \in 1..k |-> "out"]

C18_UnknownIdLeniency ==
    [][\A c \in Callers :
        (/\ pc[c] = "idle"
         /\ pc'[c] = "return"
         /\ reply'[c].kind \in {"status", "logs"}
         /\ (arg'[c] = "" \/ arg'[c] \notin DOMAIN agent_sessions)) =>
            /\ reply'[c].kind = "status" =>
                    reply'[c].status = [running |-> FALSE, current_lesson |-> None,
                                        last_run |-> None, log_count |-> 0, raised |-> None]
            /\ reply'[c].kind = "logs" => reply'[c].logs = <<>>
            /\ agent_sessions' = agent_sessions]_vars

\* an unknown id was asked for while a session was running with a log
C18_Witness ==
    \E c \in Callers :
        /\ pc[c] = "return"
        /\ reply[c].kind = "status"
        /\ arg[c] # ""
        /\ ~Known(arg[c])
        /\ \E s \in DOMAIN agent_sessions :
            agent_sessions[s].running /\ agent_sessions[s].logs # <<>>

\* a start request the claim calls invalid: email or password missing, or
\* a batch request whose lesson_ids hold nothing but blanks and commas
InvalidInput(r) ==
    \/ r.unix_email = ""
    \/ r.unix_password = ""
    \/ r.mode = "batch" /\ \A i \in 1..Len(r.lesson_ids) : r.lesson_ids[i] \in {" ", ","}

\* C19: an invalid start request is answered 400 before admission: no
\* session is created, no runner thread started, the running count is as
\* before, at capacity too.
C19_InvalidInputCreatesNothing ==
    [][\A c \in Callers :
        (pc[c] = "idle" /\ req'[c] # NoReq /\ InvalidInput(req'[c])) =>
            /\ result'[c] = "400"
            /\ agent_sessions' = agent_sessions
            /\ rpc' = rpc]_vars

\* a batch request with credentials and lesson_ids of blanks and commas
\* was refused with 400 while the system was at capacity
C19_Witness ==
    \E c \in Callers :
        /\ pc[c] = "return"
        /\ result[c] = "400"
        /\ req[c].mode = "batch"
        /\ HasCredentials(req[c])
        /\ req[c].lesson_ids # <<>>
        /\ _running_count >= MAX_CONCURRENT_AGENTS

-----------------------------------------------------------------------------
(* The session record *)

\* C21: update_session, mark_session_finished, set_job_id and request_stop
\* on an id the store has no record of change nothing: get_session of that
\* id is empty afterwards as it was before, in both backings.
C21_UpdateUnknownIsNoOp ==
    [][\A b \in Backings, s \in SessionIds :
        GetSessionOf(b, s) = <<>> => GetSessionOf(b, s)' = <<>>]_vars

\* C22: a session never has more than one live execution unit: at most one
\* runner thread (with the worker process it spawns) is at work for a
\* session id, whatever start and stop requests are made.
C22_OneExecutionUnit == \A s \in SessionIds : threads[s] <= 1

\* C28: create_session returns an id that has no record yet and leaves the
\* records of the existing sessions as they are.
C28_IdsNeverReused ==
    [][\A c \in Callers :
        (pc[c] = "create_register" /\ pc'[c] = "return") =>
            /\ result'[c] \notin DOMAIN agent_sessions
            /\ \A s \in DOMAIN agent_sessions : agent_sessions'[s] = agent_sessions[s]]_vars

\* the step of a runner from process.wait() to its line about the exit
ClassifyStep(s) == rpc[s] = "wait" /\ rpc'[s] = "finally"

\* C27: the line the runner records about the worker's exit depends on the
\* exit code alone: 'stopped by user' exactly when the code is -15 or -9,
\* the finished line for every other code, whatever was relayed or requested.
C27_ExitClassification ==
    [][\A s \in SessionIds :
        ClassifyStep(s) =>
            LET logs == agent_sessions'[s].logs
                signalled == proc[s].code \in {-9, -15}
            IN /\ logs = Append(agent_sessions[s].logs, logs[Len(logs)])
               /\ logs[Len(logs)] = "stopped" <=> signalled
               /\ logs[Len(logs)] = "finished" <=> ~signalled]_vars

\* a stop was asked for and logged, the worker had ended with code 1 by
\* itself, and the runner recorded the finished line
C27_Witness ==
    \E s \in DOMAIN agent_sessions :
        /\ rpc[s] = "finally"
        /\ proc[s].code = 1
        /\ HasLine(s, "stopping")
        /\ agent_sessions[s].logs[Len(agent_sessions[s].logs)] = "finished"

\* C29: last_run is null exactly while the session has been running since
\* its creation: every created session with running = false has last_run set.
C29_LastRunMarksFinishing ==
    \A s \in DOMAIN agent_sessions :
        /\ ~agent_sessions[s].running => agent_sessions[s].last_run # None
        /\ agent_sessions[s].last_run # None => rpc[s] = "done"

\* the lines a queue job appends as its last word
FinalLines == {"stopped", "finished", "error"}

\* an iteration of the job's relay loop that found stop_requested set
StopIteration(s) ==
    /\ jpc[s] = "relay"
    /\ pipe'[s] < pipe[s]
    /\ jpc'[s] # "except"
    /\ is_stop_requested(s)

\* what follows the 'Stopping' line in a log
AfterStopping(logs) ==
    LET at == CHOOSE i \in 1..Len(logs) :
                    logs[i] = "stopping" /\ \A j \in 1..(i-1) : logs[j] # "stopping"
    IN IF Count(logs, "stopping") = 0 THEN <<>> ELSE SubSeq(logs, at + 1, Len(logs))

\* C30: a relay iteration of the queue job that finds stop_requested set
\* appends the 'Stopping' line and not the line it read, signals the worker
\* and leaves the loop; after the 'Stopping' line the log receives nothing
\* but the job's one final line.
C30_CooperativeStop ==
    /\ [](\A s \in SessionIds :
            Count(redis_logs[s], "stopping") > 0 =>
                /\ jpc[s] # "relay"
                /\ Len(AfterStopping(redis_logs[s])) <= 1
                /\ \A i \in 1..Len(AfterStopping(redis_logs[s])) :
                        AfterStopping(redis_logs[s])[i] \in FinalLines)
    /\ [][\A s \in SessionIds :
            StopIteration(s) =>
                /\ redis_logs'[s] = LastN(Append(redis_logs[s], "stopping"), RedisLogBound)
                /\ Alive(s) => proc'[s].termSent
                /\ jpc'[s] = "wait"]_vars

\* the job has stopped on request with a worker line still unread: the log
\* ends with the 'Stopping' line and the stopped line
C30_Witness ==
    \E s \in SessionIds :
        /\ jpc[s] = "done"
        /\ pipe[s] > 0
        /\ Len(redis_logs[s]) >= 3
        /\ AfterStopping(redis_logs[s]) = <<"stopped">>
        /\ Count(redis_logs[s], "out") > 0

\* a client's status request and logs request can be handled now
ReadsCanComplete(c) ==
    /\ ENABLED (\E sid \in SessionIds \cup {""} : GetAgentStatus(c, sid))
    /\ ENABLED (\E sid \in SessionIds \cup {""} : GetAgentLogs(c, sid))

\* stop_agent_by_session is in time.sleep(2), the sessions lock held
InGraceWait == \E d \in Callers : pc[d] = "stop_sleep"

\* the runner thread of a session is in readline on its worker's output
RunnerReading == \E s \in SessionIds : rpc[s] = "relay" /\ pipe[s] = 0 /\ Alive(s)

\* C23: status and log reads never block: while a runner thread is blocked
\* reading its worker's output, and while stop_agent_by_session is in its
\* grace-period wait with the sessions lock held, a status request and a
\* logs request can be handled and answered.
C23_ReadsNeverBlock ==
    \A c \in Callers :
        (/\ pc[c] = "idle"
         /\ \A d \in Callers : pc[d] \in {"idle", "stop_sleep"}
         /\ RunnerReading \/ InGraceWait) => ReadsCanComplete(c)

\* C24: admission never blocks: a caller entering create_session finds the
\* sessions lock free (unless another create_session call is inside its
\* check-and-register section); in particular it does not wait for a
\* stop_agent_by_session call that is in its grace-period wait.
C24_AdmissionNeverBlocks ==
    \A c \in Callers :
        (pc[c] = "idle" /\ \A d \in Callers : pc[d] # "create_register") => LockAvailable

\* a step of the runner thread of session a
RunnerStepOf(a) == rpc'[a] # rpc[a] \/ (rpc[a] = "relay" /\ pipe'[a] < pipe[a])

\* a step of the handler of a stop, status or logs request for session a
RequestStepFor(a) ==
    \E c \in Callers : pc'[c] # pc[c] /\ (arg[c] = a \/ arg'[c] = a)

\* the record and the process of session b are what they were
Untouched(b) ==
    /\ proc'[b] = proc[b]
    /\ Known(b) => b \in DOMAIN agent_sessions' /\ agent_sessions'[b] = agent_sessions[b]

\* C25: session isolation: a step of a stop, status or logs request for a
\* session, and a step of its runner, leaves every other session's record
\* (running, stop_requested, current_lesson, last_run, logs, process) as it
\* was and sends no signal to the other session's process.
C25_SessionIsolation ==
    [][\A a, b \in SessionIds :
        (a # b /\ (RunnerStepOf(a) \/ RequestStepFor(a))) => Untouched(b)]_vars

\* two sessions have live workers, and one of them is being stopped
C25_Witness ==
    \E a, b \in DOMAIN agent_sessions :
        /\ a # b
        /\ Alive(b) /\ agent_sessions[b].running /\ ~proc[b].termSent
        /\ Exited(a) /\ proc[a].code \in {-9, -15}
        /\ \E c \in Callers : pc[c] = "stop_finish" /\ arg[c] = a

\* a create_session call is refused
RefusedStep == \E c \in Callers : pc[c] = "idle" /\ pc'[c] = "return" /\ result'[c] = "503"

C31_RunningSetAgrees ==
    \A s \in SessionIds : s \in running_set <=> Get(get_session(s), "running", FALSE)

\* C33: once a stop call has returned success for a session, no worker
\* process of the session is alive (so none is spawned afterwards), also
\* when the stop came before the runner thread had spawned the process.
C33_StopIsEffective == \A s \in SessionIds : stopOk[s] => ~Alive(s)

AliveWorkers == {s \in SessionIds : Alive(s)}

\* C34: at most MAX_CONCURRENT_AGENTS worker processes are alive at a time:
\* every alive worker belongs to a session whose running flag is true.
C34_AliveWorkersBounded ==
    /\ Cardinality(AliveWorkers) <= MAX_CONCURRENT_AGENTS
    /\ \A s \in AliveWorkers : Known(s) /\ agent_sessions[s].running

\* C35: in the queue job, once stop_requested is true with the worker
\* alive, the job comes to send terminate to the worker (or the worker is
\* gone), also when the worker writes no further line. Runs in which the
\* store stops answering are not held against the job.
C35_StopEventuallyActedOn ==
    \A s \in SessionIds :
        (is_stop_requested(s) /\ Alive(s)) ~> (proc[s].termSent \/ ~Alive(s) \/ ~redis_up)

\* a status request for session s is answered in this step
StatusStep(c, s) == pc[c] = "idle" /\ pc'[c] = "return" /\ arg'[c] = s /\ reply'[c].kind = "status"

PairEnded == \A c \in Callers : CredsAnswered(c)

====
